---- MODULE Spec2Model ----
(***************************************************************************)
(* The signing round of thresh-sig (src/sign.rs): binding values, group    *)
(* commitment and challenge, Lagrange coefficients, signature shares,      *)
(* verification of the shares and their aggregation.                       *)
(*                                                                         *)
(* Integers are rug::Integer (unbounded).  Strings are sequences of bytes. *)
(* A call that panics yields Failure (for verify_participants: a record    *)
(* with panicked = TRUE).                                                  *)
(***************************************************************************)
EXTENDS Integers, Sequences, FiniteSets, TLC

VARIABLES
   state,                     \* FrostState: the modulus q and the generator
   message,                   \* the message being signed, as bytes
   participants_commitments,  \* the published PublicCommitment list
   ret,                       \* the last call of a function of sign.rs
   tampered,                  \* verify_participants repeated on another message
   signers,                   \* session: each signer's id, private key, nonces
   group,                     \* session: group commitment and challenge
   pc,                        \* session: each signer's position
   responses,                 \* session: the shares, in order of arrival
   aggregate                  \* session: the aggregate response

vars ==
   <<state, message, participants_commitments, ret, tampered,
     signers, group, pc, responses, aggregate>>

(***************************************************************************)
(* Bounds of the model.                                                    *)
(***************************************************************************)
MaxQ == 5
MaxParticipants == 2
MaxMessages == 2
MaxSigners == 2

(***************************************************************************)
(* sha256::digest (sign.rs lines 35 and 65): SHA-256 of a byte string.  A  *)
(* 32-bit word is a pair <<hi, lo>> of 16-bit halves.                      *)
(***************************************************************************)
SHA256_K ==
   <<
      <<17034, 12184>>, <<28983, 17553>>, <<46528, 64463>>, <<59829, 56229>>,
      <<14678, 49755>>, <<23025, 4593>>, <<37439, 33444>>, <<43804, 24277>>,
      <<55303, 43672>>, <<4739, 23297>>, <<9265, 34238>>, <<21772, 32195>>,
      <<29374, 23924>>, <<32990, 45566>>, <<39900, 1703>>, <<49563, 61812>>,
      <<58523, 27073>>, <<61374, 18310>>, <<4033, 40390>>, <<9228, 41420>>,
      <<11753, 11375>>, <<19060, 33962>>, <<23728, 43484>>, <<30457, 35034>>,
      <<38974, 20818>>, <<43057, 50797>>, <<45059, 10184>>, <<48985, 32711>>,
      <<50912, 3059>>, <<54695, 37191>>, <<1738, 25425>>, <<5161, 10599>>,
      <<10167, 2693>>, <<11803, 8504>>, <<19756, 28156>>, <<21304, 3347>>,
      <<25866, 29524>>, <<30314, 2747>>, <<33218, 51502>>, <<37490, 11397>>,
      <<41663, 59553>>, <<43034, 26187>>, <<49739, 35696>>, <<51052, 20899>>,
      <<53650, 59417>>, <<54937, 1572>>, <<62478, 13701>>, <<4202, 41072>>,
      <<6564, 49430>>, <<7735, 27656>>, <<10056, 30540>>, <<13488, 48309>>,
      <<14620, 3251>>, <<20184, 43594>>, <<23452, 51791>>, <<26670, 28659>>,
      <<29839, 33518>>, <<30885, 25455>>, <<33992, 30740>>, <<36039, 520>>,
      <<37054, 65530>>, <<42064, 27883>>, <<48889, 41975>>, <<50801, 30962>>
   >>

SHA256_H0 ==
   <<
      <<27145, 58983>>, <<47975, 44677>>, <<15470, 62322>>, <<42319, 62778>>,
      <<20750, 21119>>, <<39685, 26764>>, <<8067, 55723>>, <<23520, 52505>>
   >>

Half == 65536

\* x shifted right by k bits, k in 0..15, with the bits shifted out of the
\* high half entering the low half
ShR(w, k) ==
   <<w[1] \div (2^k), (w[2] \div (2^k)) + (w[1] % (2^k)) * (2^(16 - k))>>

RotR16(w, k) ==
   <<(w[1] \div (2^k)) + (w[2] % (2^k)) * (2^(16 - k)),
     (w[2] \div (2^k)) + (w[1] % (2^k)) * (2^(16 - k))>>

RotR(w, k) == IF k < 16 THEN RotR16(w, k) ELSE RotR16(<<w[2], w[1]>>, k - 16)

\* bitwise operations on 4-bit digits, by recursion over the bits
RECURSIVE Xor3N(_, _, _, _)
Xor3N(a, b, c, n) ==
   IF n = 0 THEN 0
   ELSE ((a + b + c) % 2) + 2 * Xor3N(a \div 2, b \div 2, c \div 2, n - 1)

RECURSIVE ChN(_, _, _, _)
ChN(e, f, g, n) ==
   IF n = 0 THEN 0
   ELSE (IF e % 2 = 1 THEN f % 2 ELSE g % 2)
        + 2 * ChN(e \div 2, f \div 2, g \div 2, n - 1)

RECURSIVE MajN(_, _, _, _)
MajN(a, b, c, n) ==
   IF n = 0 THEN 0
   ELSE (((a % 2) + (b % 2) + (c % 2)) \div 2)
        + 2 * MajN(a \div 2, b \div 2, c \div 2, n - 1)

\* the three operations tabulated over all triples of 4-bit digits
Xor3Tab ==
   [i \in 1..4096 |->
      Xor3N((i - 1) \div 256, ((i - 1) \div 16) % 16, (i - 1) % 16, 4)] \o <<>>
ChTab ==
   [i \in 1..4096 |->
      ChN((i - 1) \div 256, ((i - 1) \div 16) % 16, (i - 1) % 16, 4)] \o <<>>
MajTab ==
   [i \in 1..4096 |->
      MajN((i - 1) \div 256, ((i - 1) \div 16) % 16, (i - 1) % 16, 4)] \o <<>>

\* a tabulated operation applied digit by digit to three 16-bit halves
Bitwise3H(tab, a, b, c) ==
     4096 * tab[256 * (a \div 4096) + 16 * (b \div 4096) + (c \div 4096) + 1]
   + 256 * tab[256 * ((a \div 256) % 16) + 16 * ((b \div 256) % 16)
               + ((c \div 256) % 16) + 1]
   + 16 * tab[256 * ((a \div 16) % 16) + 16 * ((b \div 16) % 16)
              + ((c \div 16) % 16) + 1]
   + tab[256 * (a % 16) + 16 * (b % 16) + (c % 16) + 1]

Xor3(x, y, z) ==
   <<Bitwise3H(Xor3Tab, x[1], y[1], z[1]), Bitwise3H(Xor3Tab, x[2], y[2], z[2])>>
Ch(e, f, g) ==
   <<Bitwise3H(ChTab, e[1], f[1], g[1]), Bitwise3H(ChTab, e[2], f[2], g[2])>>
Maj(a, b, c) ==
   <<Bitwise3H(MajTab, a[1], b[1], c[1]), Bitwise3H(MajTab, a[2], b[2], c[2])>>

\* wrapping 32-bit addition of the words of a sequence
RECURSIVE SumHi(_, _)
SumHi(ws, i) == IF i = 0 THEN 0 ELSE ws[i][1] + SumHi(ws, i - 1)
RECURSIVE SumLo(_, _)
SumLo(ws, i) == IF i = 0 THEN 0 ELSE ws[i][2] + SumLo(ws, i - 1)
AddW(ws) ==
   LET lo == SumLo(ws, Len(ws))
       hi == SumHi(ws, Len(ws)) + (lo \div Half)
   IN  <<hi % Half, lo % Half>>

BigSigma0(x) == Xor3(RotR(x, 2), RotR(x, 13), RotR(x, 22))
BigSigma1(x) == Xor3(RotR(x, 6), RotR(x, 11), RotR(x, 25))
SmallSigma0(x) == Xor3(RotR(x, 7), RotR(x, 18), ShR(x, 3))
SmallSigma1(x) == Xor3(RotR(x, 17), RotR(x, 19), ShR(x, 10))

\* padding: 0x80, zeros to 56 mod 64, the bit length as a 64-bit big-endian
RECURSIVE Zeros(_)
Zeros(n) == IF n = 0 THEN <<>> ELSE <<0>> \o Zeros(n - 1)

Pad(bytes) ==
   LET l == Len(bytes)
       z == (119 - (l % 64)) % 64
       bits == 8 * l
   IN  bytes \o <<128>> \o Zeros(z) \o <<0, 0, 0, 0>>
       \o <<(bits \div 16777216) % 256, (bits \div 65536) % 256,
            (bits \div 256) % 256, bits % 256>>

\* the 16 big-endian words of block b (counted from 0) of the padded bytes
BlockWord(p, b, i) ==
   LET o == 64 * b + 4 * i
   IN  <<p[o + 1] * 256 + p[o + 2], p[o + 3] * 256 + p[o + 4]>>

RECURSIVE Schedule(_, _, _)
Schedule(p, b, w) ==
   LET t == Len(w)
   IN  IF t = 64 THEN w
       ELSE IF t < 16 THEN Schedule(p, b, Append(w, BlockWord(p, b, t)))
       ELSE Schedule(p, b,
               Append(w, AddW(<<SmallSigma1(w[t - 1]), w[t - 6],
                                SmallSigma0(w[t - 14]), w[t - 15]>>)))

RECURSIVE Rounds(_, _, _)
Rounds(s, w, t) ==
   IF t = 64 \/ Len(s) # 8 THEN s
   ELSE LET t1 == AddW(<<s[8], BigSigma1(s[5]), Ch(s[5], s[6], s[7]),
                         SHA256_K[t + 1], w[t + 1]>>)
            t2 == AddW(<<BigSigma0(s[1]), Maj(s[1], s[2], s[3])>>)
        IN  Rounds(<<AddW(<<t1, t2>>), s[1], s[2], s[3],
                     AddW(<<s[4], t1>>), s[5], s[6], s[7]>>, w, t + 1)

Compress(h, p, b) ==
   LET s == Rounds(h, Schedule(p, b, <<>>), 0)
   IN  <<AddW(<<h[1], s[1]>>), AddW(<<h[2], s[2]>>), AddW(<<h[3], s[3]>>),
         AddW(<<h[4], s[4]>>), AddW(<<h[5], s[5]>>), AddW(<<h[6], s[6]>>),
         AddW(<<h[7], s[7]>>), AddW(<<h[8], s[8]>>)>>

RECURSIVE Blocks(_, _, _)
Blocks(h, p, b) ==
   IF 64 * b = Len(p) THEN h ELSE Blocks(Compress(h, p, b), p, b + 1)

\* the digest as its 64 hexadecimal digits (values 0..15), most significant first
HexOfHalf(x) == <<x \div 4096, (x \div 256) % 16, (x \div 16) % 16, x % 16>>
RECURSIVE HexOfWords(_, _)
HexOfWords(h, i) ==
   IF i > Len(h) THEN <<>>
   ELSE HexOfHalf(h[i][1]) \o HexOfHalf(h[i][2]) \o HexOfWords(h, i + 1)

digest(bytes) == HexOfWords(Blocks(SHA256_H0, Pad(bytes), 0), 1)

(***************************************************************************)
(* Integer::from_str_radix(hex, 16).unwrap().modulo(q) (sign.rs lines      *)
(* 34-45, 64-73): the digest's 64 hexadecimal digits read as one number,   *)
(* reduced mod q.  Horner's rule over the first k groups of four digits,   *)
(* reducing at each group.                                                 *)
(***************************************************************************)
\* what a call that panics yields
Failure == -1

RECURSIVE HexModulo(_, _, _)
HexModulo(hex, k, q) ==
   IF k = 0 THEN 0
   ELSE ((65536 % q) * HexModulo(hex, k - 1, q)
         + 4096 * hex[4 * k - 3] + 256 * hex[4 * k - 2] + 16 * hex[4 * k - 1] + hex[4 * k]) % q

from_str_radix_modulo(hex, q) == IF Len(hex) = 64 THEN HexModulo(hex, 16, q) ELSE Failure

(***************************************************************************)
(* format!("{}", Integer): the decimal digits of n as ASCII bytes.         *)
(***************************************************************************)
RECURSIVE Digits(_)
Digits(n) == IF n < 10 THEN <<48 + n>> ELSE Append(Digits(n \div 10), 48 + (n % 10))

Display(n) == IF n < 0 THEN <<45>> \o Digits(0 - n) ELSE Digits(n)

Sep2 == <<58, 58>>
Sep4 == <<58, 58, 58, 58>>

(***************************************************************************)
(* crate::modular (not part of the sources at hand): residues mod q, every *)
(* result in 0..q-1; div fails when the divisor has no inverse mod q.      *)
(***************************************************************************)
add(a, b, q) == IF a = Failure \/ b = Failure THEN Failure ELSE (a + b) % q

sub(a, b, q) == IF a = Failure \/ b = Failure THEN Failure ELSE (a - b) % q

mul(a, b, q) == IF a = Failure \/ b = Failure THEN Failure ELSE (a * b) % q

Inverses(b, q) == {x \in 0..(q - 1) : (b * x) % q = 1 % q}

div(a, b, q) ==
   IF a = Failure \/ b = Failure \/ Inverses(b, q) = {} THEN Failure
   ELSE (a * (CHOOSE x \in Inverses(b, q) : TRUE)) % q

RECURSIVE PowMod(_, _, _)
PowMod(base, exp, q) ==
   IF exp = 0 THEN 1 % q ELSE (base * PowMod(base, exp - 1, q)) % q

pow(base, exp, q) ==
   IF base = Failure \/ exp = Failure \/ exp < 0 THEN Failure
   ELSE PowMod(base, exp, q)

(***************************************************************************)
(* sign.rs                                                                 *)
(***************************************************************************)
PublicCommitment_new(participant_id, di, ei, public_share) ==
   [participant_id |-> participant_id, di |-> di, ei |-> ei,
    public_share |-> public_share]

to_string(c) ==
   Display(c.participant_id) \o Sep2 \o Display(c.di) \o Sep2 \o Display(c.ei)

BindingInput(participant_commitment, msg) ==
   Display(participant_commitment.participant_id) \o Sep4 \o msg \o Sep4
   \o to_string(participant_commitment)

ChallengeInput(R, group_public_key, msg) ==
   Display(R) \o Sep4 \o Display(group_public_key) \o Sep4 \o msg


(***************************************************************************)
(* The inputs the bounded model draws.                                     *)
(***************************************************************************)
IsPrime(q) == q > 1 /\ \A k \in 2..(q - 1) : q % k # 0

IsGenerator(g, q) == {PowMod(g, k, q) : k \in 1..(q - 1)} = 1..(q - 1)

LeastGenerator(q) == CHOOSE g \in 1..(q - 1) : IsGenerator(g, q) /\ \A h \in 1..(g - 1) : ~IsGenerator(h, q)

\* every odd prime modulus up to MaxQ with its least generator
Contexts == {[q |-> q, generator |-> LeastGenerator(q)] : q \in {p \in 3..MaxQ : IsPrime(p)}}

\* "m1", "m2", ...
Messages == {<<109, 48 + k>> : k \in 1..MaxMessages}

Residues(st) == 0..(st.q - 1)

\* participant identifiers: some below the number of participants, some
\* above it, some beyond the modulus
Ids == 0..(MaxQ + 1)

\* the exponents the published nonce commitments are drawn from
Exponents == {1, 2}

\* what the participants 0 .. MaxParticipants may have published: nonce
\* commitments g^1 and g^e, public share g^(id + 1)
CommitmentPool(st) ==
   {PublicCommitment_new(id, pow(st.generator, 1, st.q), pow(st.generator, e, st.q), pow(st.generator, id + 1, st.q)) :
      id \in 0..MaxParticipants, e \in Exponents}

AscendingIds(s) == \A i \in 1..(Len(s) - 1) : s[i].participant_id < s[i + 1].participant_id

SeqsUpTo(S, n) == UNION {[1..k -> S] : k \in 0..n}

\* the published lists, one commitment per participant, by ascending identifier
CommitmentLists(st) == {s \in SeqsUpTo(CommitmentPool(st), MaxParticipants) : AscendingIds(s)}

\* a signer of a session: a nonzero identifier, a private share, a nonce pair
SignerPool(st) ==
   [participant_id : 1..(MaxSigners + 1), private_key : Exponents, nonces : {<<1, e>> : e \in Exponents}]

SignerLists(st) == {s \in UNION {[1..k -> SignerPool(st)] : k \in 1..MaxSigners} : AscendingIds(s)}

\* PublicCommitment::new(id, g^d, g^e, g^s): what a signer publishes
CommitmentOf(st, signer) ==
   PublicCommitment_new(signer.participant_id, pow(st.generator, signer.nonces[1], st.q), pow(st.generator, signer.nonces[2], st.q), pow(st.generator, signer.private_key, st.q))

\* the strings the model hashes: binding inputs and challenge inputs
HashedStrings ==
   UNION {
      {BindingInput(c, m) : c \in CommitmentPool(st) \cup {CommitmentOf(st, sg) : sg \in SignerPool(st)}, m \in Messages}
      \cup {ChallengeInput(R, y, m) : R \in Residues(st), y \in Residues(st), m \in Messages} :
      st \in Contexts}

DigestCache == [x \in HashedStrings |-> digest(x)] @@ <<>>

\* sha256::digest, read from its table over the strings the model hashes
sha256_digest(bytes) ==
   DigestCache[bytes]

compute_binding_value(st, participant_commitment, msg) ==
   from_str_radix_modulo(sha256_digest(BindingInput(participant_commitment, msg)), st.q)

\* group_commitment with the inner modular::mul written modular::add
RECURSIVE group_commitment_added(_, _, _, _)
group_commitment_added(st, commitments, msg, k) ==
   IF k = 0 THEN 1
   ELSE LET acc == group_commitment_added(st, commitments, msg, k - 1)
            binding_value == compute_binding_value(st, commitments[k], msg)
        IN  mul(add(acc, commitments[k].di, st.q),
                pow(commitments[k].ei, binding_value, st.q), st.q)

\* the fold of lines 54-63 over the first k commitments
RECURSIVE group_commitment(_, _, _, _)
group_commitment(st, commitments, msg, k) ==
   IF k = 0 THEN 1
   ELSE LET acc == group_commitment(st, commitments, msg, k - 1)
            binding_value == compute_binding_value(st, commitments[k], msg)
        IN  mul(mul(acc, commitments[k].di, st.q),
                pow(commitments[k].ei, binding_value, st.q), st.q)

compute_group_commitment_and_challenge(st, commitments, msg, group_public_key) ==
   LET R == group_commitment(st, commitments, msg, Len(commitments))
       challenge ==
          from_str_radix_modulo(sha256_digest(ChallengeInput(R, group_public_key, msg)), st.q)
   IN  <<R, challenge>>

\* lagrange_fold over the range 1 ..= n instead of 0 .. n
RECURSIVE lagrange_fold_from_one(_, _, _)
lagrange_fold_from_one(st, participant_id, k) ==
   IF k = 0 THEN 1
   ELSE LET acc == lagrange_fold_from_one(st, participant_id, k - 1)
            j == k
        IN  mul(acc, div(j, sub(j, participant_id, st.q), st.q), st.q)

\* the fold of lines 82-93 over j = 0 .. k-1
RECURSIVE lagrange_fold(_, _, _)
lagrange_fold(st, participant_id, k) ==
   IF k = 0 THEN 1
   ELSE LET acc == lagrange_fold(st, participant_id, k - 1)
            j == k - 1
        IN  mul(acc, div(j, sub(j, participant_id, st.q), st.q), st.q)

lagrange_coefficient(st, participant_id, number_of_participants) ==
   lagrange_fold(st, participant_id, number_of_participants)

compute_own_response(st, participant_commitment, private_key, nonces, lambda, challenge, msg) ==
   LET binding_value == compute_binding_value(st, participant_commitment, msg)
       di == nonces[1]
       ei == nonces[2]
   IN  add(di,
           add(mul(ei, binding_value, st.q),
               mul(mul(lambda, private_key, st.q), challenge, st.q),
               st.q),
           st.q)

\* the term of one commitment, lines 132-150
to_validate(st, c, msg, challenge, number_of_participants) ==
   LET binding_value == compute_binding_value(st, c, msg)
       ri == mul(c.di, pow(c.ei, binding_value, st.q), st.q)
   IN  mul(ri,
           pow(c.public_share,
               mul(challenge,
                   lagrange_coefficient(st, c.participant_id,
                                        number_of_participants),
                   st.q),
               st.q),
           st.q)

\* verify_fold with the fold started at false
RECURSIVE verify_fold_from_false(_, _, _, _, _, _)
verify_fold_from_false(st, commitments, msg, gz, challenge_n, k) ==
   IF k = 0 THEN [panicked |-> FALSE, value |-> FALSE]
   ELSE LET acc == verify_fold_from_false(st, commitments, msg, gz, challenge_n, k - 1)
            tv == to_validate(st, commitments[k], msg, challenge_n[1], challenge_n[2])
        IN  IF acc.panicked THEN acc
            ELSE IF tv = Failure \/ tv # gz
                 THEN [panicked |-> TRUE, value |-> FALSE]
                 ELSE [panicked |-> FALSE, value |-> acc.value /\ (tv = gz)]

\* the fold of lines 131-153 over the first k commitments: a failed
\* arithmetic call or the assert_eq! of line 151 panics
RECURSIVE verify_fold(_, _, _, _, _, _)
verify_fold(st, commitments, msg, gz, challenge_n, k) ==
   IF k = 0 THEN [panicked |-> FALSE, value |-> TRUE]
   ELSE LET acc == verify_fold(st, commitments, msg, gz, challenge_n, k - 1)
            tv == to_validate(st, commitments[k], msg, challenge_n[1],
                              challenge_n[2])
        IN  IF acc.panicked THEN acc
            ELSE IF tv = Failure \/ tv # gz
                 THEN [panicked |-> TRUE, value |-> FALSE]
                 ELSE [panicked |-> FALSE, value |-> acc.value /\ (tv = gz)]

verify_participants(st, commitments, msg, own_response, challenge, number_of_participants) ==
   LET gz == pow(st.generator, own_response, st.q)
   IN  IF gz = Failure THEN [panicked |-> TRUE, value |-> FALSE]
       ELSE verify_fold(st, commitments, msg, gz,
                        <<challenge, number_of_participants>>,
                        Len(commitments))

\* aggregate_fold started at 1, as the other folds of the file are
RECURSIVE aggregate_fold_from_one(_, _, _)
aggregate_fold_from_one(st, participants_responses, k) ==
   IF k = 0 THEN 1
   ELSE add(aggregate_fold_from_one(st, participants_responses, k - 1),
            participants_responses[k], st.q)

\* compute_aggregate_response with modular::sub(pr, acc) for modular::add(acc, pr)
RECURSIVE aggregate_fold_sub(_, _, _)
aggregate_fold_sub(st, participants_responses, k) ==
   IF k = 0 THEN 0
   ELSE sub(participants_responses[k],
            aggregate_fold_sub(st, participants_responses, k - 1), st.q)

compute_aggregate_response_sub(st, participants_responses) ==
   aggregate_fold_sub(st, participants_responses, Len(participants_responses))

\* the fold of lines 160-164 over the first k responses
RECURSIVE aggregate_fold(_, _, _)
aggregate_fold(st, participants_responses, k) ==
   IF k = 0 THEN 0
   ELSE add(aggregate_fold(st, participants_responses, k - 1),
            participants_responses[k], st.q)

compute_aggregate_response(st, participants_responses) ==
   aggregate_fold(st, participants_responses, Len(participants_responses))

(***************************************************************************)
(* Calls of the functions of sign.rs on drawn inputs.  The context, the    *)
(* message and the published list are drawn at the start; a call draws its *)
(* other arguments and leaves its result in ret until the caller takes it. *)
(***************************************************************************)
NoCall == [fn |-> "none", args |-> <<>>, value |-> <<>>]

NoTamper == [done |-> FALSE, message |-> <<>>, value |-> <<>>]

NoSession == <<>>

NoGroup == [done |-> FALSE, R |-> 0, c |-> 0]

NoAggregate == [done |-> FALSE, value |-> 0]

Call(fn, args, value) ==
   /\ ret.fn = "none"
   /\ ret' = [fn |-> fn, args |-> args, value |-> value]
   /\ UNCHANGED <<state, message, participants_commitments, tampered, signers, group, pc, responses, aggregate>>

Init ==
   /\ state \in Contexts
   /\ message \in Messages
   /\ participants_commitments \in CommitmentLists(state)
   /\ ret = NoCall
   /\ tampered = NoTamper
   /\ signers = NoSession
   /\ group = NoGroup
   /\ pc = NoSession
   /\ responses = NoSession
   /\ aggregate = NoAggregate

CallBindingValue ==
   \E i \in 1..Len(participants_commitments) :
      Call("compute_binding_value", <<i>>,
           compute_binding_value(state, participants_commitments[i], message))

CallGroupCommitment ==
   \E group_public_key \in Residues(state) :
      Call("compute_group_commitment_and_challenge", <<group_public_key>>,
           compute_group_commitment_and_challenge(state, participants_commitments, message, group_public_key))

CallLagrange ==
   \E participant_id \in Ids, n \in 0..MaxParticipants :
      Call("lagrange_coefficient", <<participant_id, n>>,
           lagrange_coefficient(state, participant_id, n))

\* a participant computes its share with the coefficient lagrange_coefficient
\* gives for its identifier; a failed coefficient ends the call
CallOwnResponse ==
   \E i \in 1..Len(participants_commitments), n \in 0..MaxParticipants :
      \E private_key \in Residues(state), challenge \in Residues(state) :
         \E nonces \in {<<1, e>> : e \in Exponents} :
            LET lambda == lagrange_coefficient(state, participants_commitments[i].participant_id, n)
            IN  Call("compute_own_response", <<i, private_key, nonces, lambda, challenge, n>>,
                     IF lambda = Failure THEN Failure
                     ELSE compute_own_response(state, participants_commitments[i], private_key, nonces, lambda, challenge, message))

CallVerify ==
   \E own_response \in Residues(state), challenge \in Residues(state), n \in 0..MaxParticipants :
      Call("verify_participants", <<own_response, challenge, n>>,
           verify_participants(state, participants_commitments, message, own_response, challenge, n))

\* a verification that returned true is repeated on another message, the
\* response and the challenge not recomputed
Tamper ==
   /\ ret.fn = "verify_participants"
   /\ ~ret.value.panicked /\ ret.value.value
   /\ ~tampered.done
   /\ \E m \in Messages \ {message} :
         tampered' = [done |-> TRUE, message |-> m,
                      value |-> verify_participants(state, participants_commitments, m, ret.args[1], ret.args[2], ret.args[3])]
   /\ UNCHANGED <<state, message, participants_commitments, ret, signers, group, pc, responses, aggregate>>

CallAggregate ==
   \E participants_responses \in SeqsUpTo(Residues(state), MaxParticipants) :
      Call("compute_aggregate_response", <<participants_responses>>,
           compute_aggregate_response(state, participants_responses))

\* the caller takes the result
Return ==
   /\ ret.fn # "none"
   /\ ret' = NoCall
   /\ tampered' = NoTamper
   /\ UNCHANGED <<state, message, participants_commitments, signers, group, pc, responses, aggregate>>

Next ==
   \/ CallBindingValue
   \/ CallGroupCommitment
   \/ CallLagrange
   \/ CallOwnResponse
   \/ CallVerify
   \/ Tamper
   \/ CallAggregate
   \/ Return

Spec == Init /\ [][Next]_vars

(***************************************************************************)
(* A signing session.  Every signer publishes its commitment; the group    *)
(* commitment and the challenge are computed over the published list; the  *)
(* signers compute their shares concurrently, and the shares reach the     *)
(* aggregator in any order; the aggregate is computed and verified.        *)
(***************************************************************************)
SessionInit ==
   /\ state \in Contexts
   /\ message \in Messages
   /\ signers \in SignerLists(state)
   /\ participants_commitments = <<>>
   /\ pc = [i \in 1..Len(signers) |-> "publish"]
   /\ group = NoGroup
   /\ responses = <<>>
   /\ aggregate = NoAggregate
   /\ ret = NoCall
   /\ tampered = NoTamper

\* the group public key the callers pass: the only public share of a
\* single-signer session, the product of the public shares otherwise
RECURSIVE GroupPublicKey(_, _, _)
GroupPublicKey(st, commitments, k) ==
   IF k = 0 THEN 1 % st.q
   ELSE mul(GroupPublicKey(st, commitments, k - 1), commitments[k].public_share, st.q)

\* the coefficient a signer's caller passes: 1 in a single-signer session,
\* lagrange_coefficient of its identifier otherwise
CoefficientOf(st, signer, n) ==
   IF n = 1 THEN 1 ELSE lagrange_coefficient(st, signer.participant_id, n)

Publish(i) ==
   /\ pc[i] = "publish"
   /\ participants_commitments' = Append(participants_commitments, CommitmentOf(state, signers[i]))
   /\ pc' = [pc EXCEPT ![i] = "published"]
   /\ UNCHANGED <<state, message, ret, tampered, signers, group, responses, aggregate>>

Challenge ==
   /\ ~group.done
   /\ \A i \in 1..Len(signers) : pc[i] = "published"
   /\ LET key == GroupPublicKey(state, participants_commitments, Len(participants_commitments))
          rc == compute_group_commitment_and_challenge(state, participants_commitments, message, key)
      IN  group' = [done |-> TRUE, R |-> rc[1], c |-> rc[2]]
   /\ UNCHANGED <<state, message, participants_commitments, ret, tampered, signers, pc, responses, aggregate>>

\* signer i computes its share and sends it; a failed coefficient panics
Respond(i) ==
   /\ group.done
   /\ pc[i] = "published"
   /\ LET lambda == CoefficientOf(state, signers[i], Len(signers))
      IN  IF lambda = Failure
          THEN /\ pc' = [pc EXCEPT ![i] = "panicked"]
               /\ UNCHANGED responses
          ELSE /\ pc' = [pc EXCEPT ![i] = "responded"]
               /\ responses' = Append(responses,
                     [signer |-> i,
                      z |-> compute_own_response(state, CommitmentOf(state, signers[i]), signers[i].private_key, signers[i].nonces, lambda, group.c, message)])
   /\ UNCHANGED <<state, message, participants_commitments, ret, tampered, signers, group, aggregate>>

Shares(rs) == [k \in 1..Len(rs) |-> rs[k].z]

Aggregate ==
   /\ group.done
   /\ ~aggregate.done
   /\ \A i \in 1..Len(signers) : pc[i] \in {"responded", "panicked"}
   /\ aggregate' = [done |-> TRUE, value |-> compute_aggregate_response(state, Shares(responses))]
   /\ UNCHANGED <<state, message, participants_commitments, ret, tampered, signers, group, pc, responses>>

VerifySession ==
   /\ aggregate.done
   /\ ret.fn = "none"
   /\ ret' = [fn |-> "verify_participants",
              args |-> <<aggregate.value, group.c, Len(signers)>>,
              value |-> verify_participants(state, participants_commitments, message, aggregate.value, group.c, Len(signers))]
   /\ UNCHANGED <<state, message, participants_commitments, tampered, signers, group, pc, responses, aggregate>>

SessionNext ==
   \/ \E i \in 1..Len(signers) : Publish(i)
   \/ Challenge
   \/ \E i \in 1..Len(signers) : Respond(i)
   \/ Aggregate
   \/ VerifySession

SpecSession == SessionInit /\ [][SessionNext]_vars

(***************************************************************************)
(* What the claims speak of.                                               *)
(***************************************************************************)
Returned(b) == [panicked |-> FALSE, value |-> b]

Injections(n) == {p \in [1..n -> 1..n] : \A i, j \in 1..n : i # j => p[i] # p[j]}

Reorder(s, p) == [k \in 1..Len(s) |-> s[p[k]]]

\* D * E^rho mod q of one commitment
PartialCommitment(st, c, msg) == mul(c.di, pow(c.ei, compute_binding_value(st, c, msg), st.q), st.q)

\* the product of the partial commitments k .. Len, taken from the last one
RECURSIVE ProductFromLast(_, _, _, _)
ProductFromLast(st, commitments, msg, k) ==
   IF k > Len(commitments) THEN 1
   ELSE (PartialCommitment(st, commitments[k], msg) * ProductFromLast(st, commitments, msg, k + 1)) % st.q

\* no j in 0 .. n-1 is congruent to id mod q
NotCongruent(st, id, n) == \A j \in 0..(n - 1) : (j - id) % st.q # 0

\* b^(-1) mod q, for b invertible
InverseOf(b, q) == CHOOSE x \in 0..(q - 1) : (b * x) % q = 1

\* the product over j in 0 .. n-1, j # id, of j / (j - id) mod q
RECURSIVE SkippingProduct(_, _, _)
SkippingProduct(st, id, n) ==
   IF n = 0 THEN 1
   ELSE IF n - 1 = id THEN SkippingProduct(st, id, n - 1)
   ELSE (SkippingProduct(st, id, n - 1) * (n - 1) * InverseOf((n - 1 - id) % st.q, st.q)) % st.q

\* the terms verify_participants compares with g^z, for the call in ret
VerifyTerms(msg) ==
   [k \in 1..Len(participants_commitments) |->
      to_validate(state, participants_commitments[k], msg, ret.args[2], ret.args[3])]

\* C1: verify_participants never aborts on a mismatch: when some term differs
\* from g^z the call returns false, and it returns true only when every term
\* equals g^z.
C1_MismatchReturnsFalse ==
   ret.fn = "verify_participants" =>
      LET gz == pow(state.generator, ret.args[1], state.q)
          terms == VerifyTerms(message)
      IN  /\ (/\ \A k \in DOMAIN terms : terms[k] # Failure
              /\ \E k \in DOMAIN terms : terms[k] # gz)
             => ret.value = Returned(FALSE)
          /\ ret.value = Returned(TRUE) => \A k \in DOMAIN terms : terms[k] = gz

\* C2: in a single-signer session, with the share z computed with lambda = 1,
\* g^z = R * public_share^c mod q.
C2_SignatureEquation ==
   (Len(signers) = 1 /\ Len(responses) = 1) =>
      pow(state.generator, responses[1].z, state.q)
         = mul(group.R, pow(participants_commitments[1].public_share, group.c, state.q), state.q)

\* C3: in a single-signer session verify_participants, called with the
\* published commitment, the message, the share, the challenge and
\* number_of_participants = 1, returns true.
C3_SingleSignerVerifies ==
   (Len(signers) = 1 /\ ret.fn = "verify_participants") => ret.value = Returned(TRUE)

\* C4: when verify_participants returned true for a message, the same call on
\* another message whose binding factors differ returns false.
C4_TamperingReturnsFalse ==
   (/\ tampered.done
    /\ Len(participants_commitments) >= 1
    /\ \A k \in 1..Len(participants_commitments) :
          compute_binding_value(state, participants_commitments[k], tampered.message)
             # compute_binding_value(state, participants_commitments[k], message))
   => tampered.value = Returned(FALSE)

\* C5: for participant_id in 0 .. n-1, lagrange_coefficient returns the
\* product over j in 0 .. n-1, j # participant_id, of j / (j - participant_id)
\* mod q: the index j = participant_id is skipped and nothing divides by zero.
C5_SkipsOwnIndex ==
   (/\ ret.fn = "lagrange_coefficient"
    /\ ret.args[1] \in 0..(ret.args[2] - 1)
    /\ ret.args[2] <= state.q)
   => ret.value = SkippingProduct(state, ret.args[1], ret.args[2])

\* C6: lagrange_coefficient with number_of_participants = 0 returns 1, the
\* group commitment of the empty list is 1, the aggregate of no response is 0.
C6_EmptyInputs ==
   /\ (ret.fn = "lagrange_coefficient" /\ ret.args[2] = 0) => ret.value = 1
   /\ (ret.fn = "compute_group_commitment_and_challenge" /\ participants_commitments = <<>>)
         => ret.value[1] = 1 /\ ret.value[2] \in Residues(state)
   /\ (ret.fn = "compute_aggregate_response" /\ ret.args[1] = <<>>) => ret.value = 0

C6_Witness ==
   /\ ret.fn = "compute_aggregate_response"
   /\ ret.args[1] = <<>>
   /\ ret.value = 0
   /\ state.q > 2

\* C7: compute_group_commitment_and_challenge returns the same pair for every
\* reordering of the list, and R is the product of the D_i * E_i^rho_i mod q.
C7_OrderInvariant ==
   ret.fn = "compute_group_commitment_and_challenge" =>
      /\ \A p \in Injections(Len(participants_commitments)) :
            compute_group_commitment_and_challenge(state, Reorder(participants_commitments, p), message, ret.args[1]) = ret.value
      /\ ret.value[1] = ProductFromLast(state, participants_commitments, message, 1)

C7_Witness ==
   /\ ret.fn = "compute_group_commitment_and_challenge"
   /\ Len(participants_commitments) >= 2
   /\ PartialCommitment(state, participants_commitments[1], message)
         # PartialCommitment(state, participants_commitments[2], message)
   /\ ret.value[1] > 1

\* the session's data in the order of the signers, whatever the order of
\* publication and of arrival
SignerCommitments == [i \in 1..Len(signers) |-> CommitmentOf(state, signers[i])]

SignerChallenge ==
   compute_group_commitment_and_challenge(state, SignerCommitments, message, GroupPublicKey(state, SignerCommitments, Len(signers)))[2]

SignerShare(i) ==
   compute_own_response(state, SignerCommitments[i], signers[i].private_key, signers[i].nonces, CoefficientOf(state, signers[i], Len(signers)), SignerChallenge, message)

Responders == {i \in 1..Len(signers) : CoefficientOf(state, signers[i], Len(signers)) # Failure}

RECURSIVE SumOfShares(_)
SumOfShares(S) ==
   IF S = {} THEN 0
   ELSE LET i == CHOOSE x \in S : TRUE
        IN  SignerShare(i) + SumOfShares(S \ {i})

\* C8: whatever the order in which the shares arrive, the aggregate is the sum
\* of all the shares mod q, in 0 .. q-1.
C8_AggregateOrderIndependent ==
   aggregate.done =>
      /\ {responses[k].signer : k \in 1..Len(responses)} = Responders
      /\ \A k \in 1..Len(responses) : responses[k].z = SignerShare(responses[k].signer)
      /\ aggregate.value = SumOfShares(Responders) % state.q
      /\ aggregate.value \in 0..(state.q - 1)

C8_Witness ==
   /\ aggregate.done
   /\ Len(responses) >= 2
   /\ responses[1].signer > responses[2].signer
   /\ responses[1].z # responses[2].z
   /\ aggregate.value > 0

\* C9: for n >= 1 and a participant_id congruent mod q to no j in 0 .. n-1,
\* lagrange_coefficient returns 0, and the response computed with that
\* coefficient is the same for every private share.
C9_ZeroCoefficient ==
   /\ (/\ ret.fn = "lagrange_coefficient"
       /\ ret.args[2] >= 1
       /\ NotCongruent(state, ret.args[1], ret.args[2]))
      => ret.value = 0
   /\ (/\ ret.fn = "compute_own_response"
       /\ ret.args[6] >= 1
       /\ NotCongruent(state, participants_commitments[ret.args[1]].participant_id, ret.args[6]))
      => /\ ret.args[4] = 0
         /\ ret.value # Failure
         /\ \A s \in Residues(state) :
               compute_own_response(state, participants_commitments[ret.args[1]], s, ret.args[3], ret.args[4], ret.args[5], message) = ret.value

C9_Witness ==
   /\ ret.fn = "compute_own_response"
   /\ ret.args[6] >= 2
   /\ NotCongruent(state, participants_commitments[ret.args[1]].participant_id, ret.args[6])
   /\ ret.args[2] > 1
   /\ ret.args[5] > 1
   /\ ret.args[4] = 0

\* C10: verify_participants on an empty list returns true for every response,
\* challenge, message and number_of_participants.
C10_EmptyListVerifies ==
   (ret.fn = "verify_participants" /\ participants_commitments = <<>>) => ret.value = Returned(TRUE)

C10_Witness ==
   /\ ret.fn = "verify_participants"
   /\ participants_commitments = <<>>
   /\ ret.value = Returned(TRUE)
   /\ ret.args[1] > 0
   /\ ret.args[3] > 0

====
